---- MODULE Spec2Model ----
(***************************************************************************)
(* Model of src/msg_split.py: the HTML fragment splitter split_message and *)
(* the tag tracker HTMLFragmentParser it drives.                           *)
(*                                                                         *)
(* A string is a sequence of one-character strings, so that tokenization,  *)
(* tag parsing and tag rendering are computed character by character.      *)
(* A call of split_message is a generator: its state is the state of its   *)
(* locals, and it advances from one suspension point to the next.  Every   *)
(* variable is a function of the call, so that several calls can coexist.  *)
(***************************************************************************)
EXTENDS Integers, Sequences, FiniteSets, TLC

VARIABLES
    source,            \* source[c]: the argument `source` of call c
    max_len,           \* max_len[c]: the argument `max_len` of call c
    pc,                \* pc[c]: where the generator of call c is suspended
    matches,           \* matches[c]: the tokens re.finditer produces, in order
    pos,               \* pos[c]: number of loop iterations completed
    current_fragment,  \* current_fragment[c]: list of strings (line 77)
    current_length,    \* current_length[c] (line 78)
    open_tags,         \* open_tags[t]: the stack of tracker instance t
    close_tags,        \* close_tags[c]: local of the loop body (line 85)
    yielded            \* yielded[c]: what the consumer has received so far

vars == <<source, max_len, pc, matches, pos, current_fragment, current_length,
          open_tags, close_tags, yielded>>

-----------------------------------------------------------------------------
(* Bounds of the model *)

\* longest source of Spec, counted in pieces
MaxPieces == 3
\* largest max_len of Spec
MaxLen == 12
\* longest text run of the scenario sources
MaxRun == 50
\* largest max_len of SpecScenario
MaxScenarioLen == 30
\* largest max_len of SpecPar
MaxParLen == 5

-----------------------------------------------------------------------------
(* Strings *)

Min(S) == CHOOSE k \in S : \A m \in S : k <= m
Max(S) == CHOOSE k \in S : \A m \in S : k >= m

RECURSIVE Join(_)
\* "".join(list)
Join(list) == IF list = <<>> THEN <<>> ELSE Head(list) \o Join(Tail(list))

RECURSIVE JoinWith(_, _)
\* sep.join(list)
JoinWith(sep, list) ==
    IF list = <<>> THEN <<>>
    ELSE IF Len(list) = 1 THEN Head(list)
    ELSE Head(list) \o sep \o JoinWith(sep, Tail(list))

RECURSIVE Repeat(_, _)
\* ch * n
Repeat(ch, n) == IF n <= 0 THEN <<>> ELSE <<ch>> \o Repeat(ch, n - 1)

Reversed(seq) == [i \in 1..Len(seq) |-> seq[Len(seq) + 1 - i]]

RemoveAt(seq, i) == SubSeq(seq, 1, i - 1) \o SubSeq(seq, i + 1, Len(seq))

\* last index of the run of characters outside `stops` that starts at i
\* (i - 1 when the run is empty)
RunEnd(s, i, stops) ==
    LET S == {k \in i..Len(s) : s[k] \in stops}
    IN  IF S = {} THEN Len(s) ELSE Min(S) - 1

-----------------------------------------------------------------------------
(* Tokenization: re.finditer(r"(</?\w+[^>]*>|[^<]+)", source), line 81 *)

\* \w, over the characters the model's sources are written with
IsWordChar(ch) == ch \notin {"<", ">", "/", " ", "=", "\""}

\* first alternative, </?\w+[^>]*> at i: index of the closing ">" or 0
MatchTag(s, i) ==
    IF s[i] # "<" THEN 0
    ELSE LET j == IF i + 1 <= Len(s) /\ s[i + 1] = "/" THEN i + 2 ELSE i + 1
         IN  IF j > Len(s) THEN 0
             ELSE IF ~IsWordChar(s[j]) THEN 0
             ELSE LET S == {k \in (j + 1)..Len(s) : s[k] = ">"}
                  IN  IF S = {} THEN 0 ELSE Min(S)

\* second alternative, [^<]+ at i: last index of the run, or 0
MatchText(s, i) == IF s[i] = "<" THEN 0 ELSE RunEnd(s, i, {"<"})

RECURSIVE FindIterFrom(_, _)
\* the matches from index i on; a position where neither alternative
\* matches is passed over
FindIterFrom(s, i) ==
    IF i > Len(s) THEN <<>>
    ELSE LET t == MatchTag(s, i)
             e == IF t # 0 THEN t ELSE MatchText(s, i)
         IN  IF e = 0 THEN FindIterFrom(s, i + 1)
             ELSE <<SubSeq(s, i, e)>> \o FindIterFrom(s, e + 1)

FindIter(s) == FindIterFrom(s, 1)

-----------------------------------------------------------------------------
(* The tag tracker: HTMLFragmentParser, lines 8-36 *)

\* str(None), the value html.parser gives an attribute written without "="
NoneStr == <<"N", "o", "n", "e">>

\* html.parser lowercases tag and attribute names
Lower(ch) == IF ch = "A" THEN "a" ELSE IF ch = "H" THEN "h" ELSE ch

LowerStr(s) == [i \in 1..Len(s) |-> Lower(s[i])]

IsEndTag(part) == Len(part) >= 2 /\ part[1] = "<" /\ part[2] = "/"

IsStartTag(part) == Len(part) >= 1 /\ part[1] = "<" /\ ~IsEndTag(part)

\* the name of the tag token: the characters after "<" or "</" up to a
\* space, "/" or ">"
TagName(part) ==
    LET i == IF IsEndTag(part) THEN 3 ELSE 2
    IN  LowerStr(SubSeq(part, i, RunEnd(part, i, {" ", "/", ">"})))

RECURSIVE ParseAttrs(_, _)
\* the (key, value) pairs html.parser hands to handle_starttag, in source
\* order: a value loses its quotes, a key without "=" has the value None
ParseAttrs(s, i) ==
    IF i > Len(s) THEN <<>>
    ELSE IF s[i] = ">" THEN <<>>
    ELSE IF s[i] \in {" ", "/"} THEN ParseAttrs(s, i + 1)
    ELSE LET ke  == RunEnd(s, i, {" ", "/", "=", ">"})
             key == LowerStr(SubSeq(s, i, ke))
         IN  IF ke + 1 <= Len(s) /\ s[ke + 1] = "="
             THEN IF ke + 2 <= Len(s) /\ s[ke + 2] = "\""
                  THEN LET ve == RunEnd(s, ke + 3, {"\""})
                       IN  <<<<key, SubSeq(s, ke + 3, ve)>>>>
                               \o ParseAttrs(s, ve + 2)
                  ELSE LET ve == RunEnd(s, ke + 2, {" ", ">"})
                       IN  <<<<key, SubSeq(s, ke + 2, ve)>>>>
                               \o ParseAttrs(s, ve + 1)
             ELSE <<<<key, NoneStr>>>> \o ParseAttrs(s, ke + 1)

TagAttrs(part) == ParseAttrs(part, 2 + Len(TagName(part)))

\* handle_starttag: self.open_tags.append((tag, attrs))
HandleStarttag(stack, tag, attrs) == Append(stack, [tag |-> tag, attrs |-> attrs])

\* variant: the matched entry is removed together with the entries above it
HandleEndtagTruncates(stack, tag) ==
    LET S == {i \in 1..Len(stack) : stack[i].tag = tag}
    IN  IF S = {} THEN stack ELSE SubSeq(stack, 1, Max(S) - 1)

\* handle_endtag: pop the entry nearest the top whose name is tag, if any
HandleEndtag(stack, tag) ==
    LET S == {i \in 1..Len(stack) : stack[i].tag = tag}
    IN  IF S = {} THEN stack ELSE RemoveAt(stack, Max(S))

\* parser.feed(part) for one token of FindIter, as far as open_tags goes
Feed(stack, part) ==
    IF IsEndTag(part) THEN HandleEndtag(stack, TagName(part))
    ELSE IF IsStartTag(part) THEN HandleStarttag(stack, TagName(part), TagAttrs(part))
    ELSE stack

\* get_open_tags: a copy of the list
GetOpenTags(stack) == stack

\* variant: reset() also empties open_tags
ResetClears(stack) == <<>>

\* parser.reset() is HTMLParser.reset: it clears the parser's input buffer;
\* open_tags is assigned in __init__ only and is left as it is
Reset(stack) == stack

RECURSIVE FeedAll(_, _)
\* the stack after the tokens of `parts` are fed in order
FeedAll(stack, parts) ==
    IF parts = <<>> THEN stack ELSE FeedAll(Feed(stack, Head(parts)), Tail(parts))

-----------------------------------------------------------------------------
(* Rendering: rebuild_open_tags and rebuild_close_tags, lines 38-64 *)

\* f'{key}="{value}"'
RenderAttr(a) == a[1] \o <<"=", "\"">> \o a[2] \o <<"\"">>

RenderOpenTag(e) ==
    LET attrs_str == JoinWith(<<" ">>, [i \in 1..Len(e.attrs) |-> RenderAttr(e.attrs[i])])
    IN  IF attrs_str # <<>> THEN <<"<">> \o e.tag \o <<" ">> \o attrs_str \o <<">">>
        ELSE <<"<">> \o e.tag \o <<">">>

RebuildOpenTags(tags) == Join([i \in 1..Len(tags) |-> RenderOpenTag(tags[i])])

RenderCloseTag(e) == <<"<", "/">> \o e.tag \o <<">">>

\* variant: the closing tags are rendered in open order
RebuildCloseTagsInOpenOrder(tags) == Join([i \in 1..Len(tags) |-> RenderCloseTag(tags[i])])

RebuildCloseTags(tags) ==
    LET r == Reversed(tags)
    IN  Join([i \in 1..Len(r) |-> RenderCloseTag(r[i])])

-----------------------------------------------------------------------------
(* split_message, lines 66-105 *)

Calls == DOMAIN pc

\* close_tags before the first iteration has assigned it
Unbound == <<"?">>

\* variant: one tracker instance shared by every call
SharedTracker(c) == 1

\* parser = HTMLFragmentParser(), line 79: the tracker instance call c uses
\* is the one it constructed itself
TrackerOf(c) == c

\* variant: the closing tags are left out of the projected length
OverflowsIgnoringClosing(cl, part_len, added, ml) == cl + part_len > ml

\* variant: a token that reaches max_len exactly does not fit
OverflowsAtLimit(cl, part_len, added, ml) == cl + part_len + added >= ml

\* line 88: current_length + part_len + added_tags_length > max_len
Overflows(cl, part_len, added, ml) == cl + part_len + added > ml

\* lines 89 and 104: "".join(current_fragment) + close_tags
Fragment(cf, ct) == Join(cf) \o ct

\* variant: the new fragment starts with the prefix only
NewFragmentDropsPart(open_tags_rebuilt, part) == <<open_tags_rebuilt>>

\* variant: the token is put before the prefix
NewFragmentPartFirst(open_tags_rebuilt, part) == <<part, open_tags_rebuilt>>

\* line 94: current_fragment = [open_tags_rebuilt, part]
NewFragment(open_tags_rebuilt, part) == <<open_tags_rebuilt, part>>

\* variant: the prefix is left out of the new fragment's length
NewLengthWithoutPrefix(open_tags_rebuilt, part) == Len(part)

\* line 95: current_length = len(open_tags_rebuilt) + part_len
NewLength(open_tags_rebuilt, part) == Len(open_tags_rebuilt) + Len(part)

\* variant: the final yield is unconditional
HasContentAlways(cf) == TRUE

\* line 103: if current_fragment
HasContent(cf) == cf # <<>>

\* the token of the iteration in progress
Part(c) == matches[c][pos[c] + 1]

\* lines 85-86, evaluated on the tracker's stack as it is now
CloseTagsNow(c) == RebuildCloseTags(GetOpenTags(open_tags[TrackerOf(c)]))

\* the record of one yield: the string handed to the consumer and the list
\* it was joined from
Yield(cf, ct) == [fragment |-> Fragment(cf, ct), parts |-> cf]

\* first next() on the generator: lines 77-81
Start(c) ==
    /\ pc[c] = "created"
    /\ current_fragment' = [current_fragment EXCEPT ![c] = <<>>]
    /\ current_length' = [current_length EXCEPT ![c] = 0]
    /\ open_tags' = [open_tags EXCEPT ![TrackerOf(c)] = <<>>]
    /\ matches' = [matches EXCEPT ![c] = FindIter(source[c])]
    /\ pc' = [pc EXCEPT ![c] = "loop"]
    /\ UNCHANGED <<source, max_len, pos, close_tags, yielded>>

\* an iteration whose token does not fit, up to its yield: lines 82-90
SplitYield(c) ==
    /\ pc[c] = "loop"
    /\ pos[c] < Len(matches[c])
    /\ LET ct == CloseTagsNow(c)
       IN  /\ Overflows(current_length[c], Len(Part(c)), Len(ct), max_len[c])
           /\ close_tags' = [close_tags EXCEPT ![c] = ct]
           /\ yielded' = [yielded EXCEPT ![c] = Append(@, Yield(current_fragment[c], ct))]
    /\ pc' = [pc EXCEPT ![c] = "split"]
    /\ UNCHANGED <<source, max_len, matches, pos, current_fragment,
                   current_length, open_tags>>

\* the same iteration once the consumer asks for more: line 92
SplitResume(c) ==
    /\ pc[c] = "split"
    /\ open_tags' = [open_tags EXCEPT ![TrackerOf(c)] = Reset(@)]
    /\ pc' = [pc EXCEPT ![c] = "reset"]
    /\ UNCHANGED <<source, max_len, matches, pos, current_fragment,
                   current_length, close_tags, yielded>>

\* the rest of that iteration: lines 93-95 and 101
Reopen(c) ==
    /\ pc[c] = "reset"
    /\ LET t == TrackerOf(c)
           open_tags_rebuilt == RebuildOpenTags(GetOpenTags(open_tags[t]))
       IN  /\ current_fragment' =
                  [current_fragment EXCEPT ![c] = NewFragment(open_tags_rebuilt, Part(c))]
           /\ current_length' =
                  [current_length EXCEPT ![c] = NewLength(open_tags_rebuilt, Part(c))]
           /\ open_tags' = [open_tags EXCEPT ![t] = Feed(@, Part(c))]
    /\ pos' = [pos EXCEPT ![c] = @ + 1]
    /\ pc' = [pc EXCEPT ![c] = "loop"]
    /\ UNCHANGED <<source, max_len, matches, close_tags, yielded>>

\* an iteration whose token fits: lines 82-88 and 97-101
AppendPart(c) ==
    /\ pc[c] = "loop"
    /\ pos[c] < Len(matches[c])
    /\ LET t  == TrackerOf(c)
           ct == CloseTagsNow(c)
       IN  /\ ~Overflows(current_length[c], Len(Part(c)), Len(ct), max_len[c])
           /\ close_tags' = [close_tags EXCEPT ![c] = ct]
           /\ current_fragment' = [current_fragment EXCEPT ![c] = Append(@, Part(c))]
           /\ current_length' = [current_length EXCEPT ![c] = @ + Len(Part(c))]
           /\ open_tags' = [open_tags EXCEPT ![t] = Feed(@, Part(c))]
    /\ pos' = [pos EXCEPT ![c] = @ + 1]
    /\ UNCHANGED <<source, max_len, pc, matches, yielded>>

\* after the loop, content is left: lines 103-105, up to the yield
FinalYield(c) ==
    /\ pc[c] = "loop"
    /\ pos[c] = Len(matches[c])
    /\ HasContent(current_fragment[c])
    /\ yielded' = [yielded EXCEPT ![c] = Append(@, Yield(current_fragment[c], close_tags[c]))]
    /\ pc' = [pc EXCEPT ![c] = "final"]
    /\ UNCHANGED <<source, max_len, matches, pos, current_fragment,
                   current_length, open_tags, close_tags>>

\* after the loop, nothing is left: line 103 is false and the generator ends
ReturnEmpty(c) ==
    /\ pc[c] = "loop"
    /\ pos[c] = Len(matches[c])
    /\ ~HasContent(current_fragment[c])
    /\ pc' = [pc EXCEPT ![c] = "done"]
    /\ UNCHANGED <<source, max_len, matches, pos, current_fragment,
                   current_length, open_tags, close_tags, yielded>>

\* the generator is resumed after its last yield and ends
Return(c) ==
    /\ pc[c] = "final"
    /\ pc' = [pc EXCEPT ![c] = "done"]
    /\ UNCHANGED <<source, max_len, matches, pos, current_fragment,
                   current_length, open_tags, close_tags, yielded>>

Next ==
    \/ \E c \in Calls : Start(c)
    \/ \E c \in Calls : SplitYield(c)
    \/ \E c \in Calls : SplitResume(c)
    \/ \E c \in Calls : Reopen(c)
    \/ \E c \in Calls : AppendPart(c)
    \/ \E c \in Calls : FinalYield(c)
    \/ \E c \in Calls : ReturnEmpty(c)
    \/ \E c \in Calls : Return(c)

-----------------------------------------------------------------------------
(* list(split_message(source, max_len)): one call run alone to its end *)

RECURSIVE SplitLoop(_, _, _, _, _, _, _, _)
\* the loop of lines 81-101 from token k on, then lines 103-105
SplitLoop(toks, k, cf, cl, tags, ct, out, ml) ==
    IF k > Len(toks)
    THEN IF HasContent(cf) THEN Append(out, Fragment(cf, ct)) ELSE out
    ELSE LET part  == toks[k]
             close == RebuildCloseTags(GetOpenTags(tags))
         IN  IF Overflows(cl, Len(part), Len(close), ml)
             THEN LET kept == Reset(tags)
                      open_tags_rebuilt == RebuildOpenTags(GetOpenTags(kept))
                  IN  SplitLoop(toks, k + 1, NewFragment(open_tags_rebuilt, part),
                                NewLength(open_tags_rebuilt, part), Feed(kept, part),
                                close, Append(out, Fragment(cf, close)), ml)
             ELSE SplitLoop(toks, k + 1, Append(cf, part), cl + Len(part),
                            Feed(tags, part), close, out, ml)

SplitMessage(src, ml) == SplitLoop(FindIter(src), 1, <<>>, 0, <<>>, Unbound, <<>>, ml)

-----------------------------------------------------------------------------
(* Inputs *)

\* the state of the calls in `cs` right after split_message(source, max_len)
\* returned their generators: no line of the body has run
Created(cs, srcs, lens) ==
    /\ source \in [cs -> srcs]
    /\ max_len \in [cs -> lens]
    /\ pc = [c \in cs |-> "created"]
    /\ matches = [c \in cs |-> <<>>]
    /\ pos = [c \in cs |-> 0]
    /\ current_fragment = [c \in cs |-> <<>>]
    /\ current_length = [c \in cs |-> 0]
    /\ open_tags = [c \in cs |-> <<>>]
    /\ close_tags = [c \in cs |-> Unbound]
    /\ yielded = [c \in cs |-> <<>>]

\* what the sources of Spec are made of: two start tags (one with an
\* attribute), their end tags, a text character, and a "<" that begins no tag
Pieces ==
    { <<"<", "a", ">">>,
      <<"<", "b", " ", "k", "=", "v", ">">>,
      <<"<", "/", "a", ">">>,
      <<"<", "/", "b", ">">>,
      <<"x">>,
      <<"<", " ">> }

\* a longer source: three tags deep, the innermost named like the outermost
DeepSource ==
    <<"<", "a", ">", "<", "b", " ", "k", "=", "v", ">", "<", "a", ">",
      "<", "/", "a", ">", "x">>

Sources ==
    {Join(ps) : ps \in UNION {[1..k -> Pieces] : k \in 0..MaxPieces}} \cup {DeepSource}

Init == Created({1}, Sources, (-1)..MaxLen)

Spec == Init /\ [][Next]_vars

-----------------------------------------------------------------------------
(* The scenarios of the specification's section 8 *)

StartP == <<"<", "p", ">">>
EndP == <<"<", "/", "p", ">">>

\* "<p>" + "A" * n + "</p>"
RunSource(n) == StartP \o Repeat("A", n) \o EndP

\* "<p>text</span></p>"
StraySource ==
    StartP \o <<"t", "e", "x", "t">> \o <<"<", "/", "s", "p", "a", "n", ">">> \o EndP

\* "<p>Hello world</p>"
HelloSource ==
    StartP \o <<"H", "e", "l", "l", "o", " ", "w", "o", "r", "l", "d">> \o EndP

ScenarioSources ==
    {RunSource(n) : n \in 1..MaxRun} \cup {StraySource, HelloSource, <<>>}

InitScenario == Created({1}, ScenarioSources, 1..MaxScenarioLen)

SpecScenario == InitScenario /\ [][Next]_vars

-----------------------------------------------------------------------------
(* Two calls consumed lazily, their steps interleaved in any order *)

ParSources ==
    { <<>>,
      <<"<", "a", ">", "x", "<", "/", "a", ">">>,
      <<"x", "<", "b", " ", "k", "=", "v", ">", "x">>,
      <<"<", "a", ">", "<", "b", " ", "k", "=", "v", ">", "<", "/", "a", ">", "x">> }

InitPar == Created({1, 2}, ParSources, 1..MaxParLen)

SpecPar == InitPar /\ [][Next]_vars

-----------------------------------------------------------------------------
(* Vocabulary of the properties *)

Done(c) == pc[c] = "done"

\* the strings call c has yielded so far
Fragments(c) == [i \in 1..Len(yielded[c]) |-> yielded[c][i].fragment]

\* a fresh tracker fed the tokens of f ends with no open tag
Balanced(f) == FeedAll(<<>>, FindIter(f)) = <<>>

\* the source tokens of the i-th fragment of call c: every fragment but the
\* first starts with the reopening prefix of line 94
SourceParts(c, i) ==
    IF i = 1 THEN yielded[c][i].parts ELSE Tail(yielded[c][i].parts)

\* the source tokens of all fragments yielded so far, in yield order
AllSourceParts(c) == Join([i \in 1..Len(yielded[c]) |-> SourceParts(c, i)])

RECURSIVE PartsBefore(_, _)
\* number of source tokens in the fragments before the i-th
PartsBefore(c, i) ==
    IF i <= 1 THEN 0 ELSE PartsBefore(c, i - 1) + Len(SourceParts(c, i - 1))

\* length of the closing tags required when the k-th token is reached
ClosingRequired(c, k) ==
    Len(RebuildCloseTags(FeedAll(<<>>, SubSeq(matches[c], 1, k - 1))))

\* the k-th token alone, plus the closing tags required there, exceeds max_len
Oversize(c, k) == Len(matches[c][k]) + ClosingRequired(c, k) > max_len[c]

RECURSIVE NestedFrom(_, _)
\* strict nesting: every end tag closes the innermost open tag
NestedFrom(toks, names) ==
    IF toks = <<>> THEN names = <<>>
    ELSE LET t == Head(toks)
         IN  IF IsEndTag(t)
             THEN /\ names # <<>>
                  /\ names[Len(names)] = TagName(t)
                  /\ NestedFrom(Tail(toks), SubSeq(names, 1, Len(names) - 1))
             ELSE IF IsStartTag(t) THEN NestedFrom(Tail(toks), Append(names, TagName(t)))
             ELSE NestedFrom(Tail(toks), names)

\* the source is markup throughout, properly nested, every tag matched
Conformant(src) ==
    /\ src # <<>>
    /\ Join(FindIter(src)) = src
    /\ NestedFrom(FindIter(src), <<>>)

IsPrefix(a, b) == Len(a) <= Len(b) /\ a = SubSeq(b, 1, Len(a))

-----------------------------------------------------------------------------
(* Properties *)

\* C1: for max_len > 0, every fragment yielded (at a split or at the end) is
\* tag-balanced on its own: a fresh tracker fed the fragment's tokens ends
\* with an empty open-tag stack.
C1_EveryFragmentBalanced ==
    \A c \in Calls :
        max_len[c] > 0 =>
            \A i \in 1..Len(yielded[c]) : Balanced(yielded[c][i].fragment)

\* C2: for max_len > 0, a yielded fragment is at most max_len long unless it
\* holds exactly one source token; a fragment of two or more source tokens
\* never exceeds max_len.
C2_LengthWithinMaxLen ==
    \A c \in Calls :
        max_len[c] > 0 =>
            \A i \in 1..Len(yielded[c]) :
                \/ Len(yielded[c][i].fragment) <= max_len[c]
                \/ Len(SourceParts(c, i)) = 1

\* C3: once the call has ended, the source tokens of the fragments, in yield
\* order and without the reopening prefixes and closing suffixes, are exactly
\* the tokens of the source, each once and in source order.
C3_TokensPreserved ==
    \A c \in Calls :
        Done(c) =>
            /\ AllSourceParts(c) = FindIter(source[c])
            /\ \A i \in 1..Len(yielded[c]) :
                   IsPrefix(Join(yielded[c][i].parts), yielded[c][i].fragment)

\* a run that split twice and has placed at least three tokens
C3_Witness ==
    \E c \in Calls :
        /\ Done(c)
        /\ Len(yielded[c]) >= 3
        /\ Len(FindIter(source[c])) >= 3
        /\ AllSourceParts(c) = FindIter(source[c])

\* C4: a conformant source (properly nested, every tag matched) no longer
\* than max_len comes back as exactly one fragment, equal to the source.
C4_ConformantSourceUnchanged ==
    \A c \in Calls :
        (Done(c) /\ max_len[c] > 0 /\ Len(source[c]) <= max_len[c]
                 /\ Conformant(source[c]))
            => Fragments(c) = <<source[c]>>

\* C5: no token is split: the source tokens of the fragments are whole
\* tokens of the source, in order, and a token that alone, plus the closing
\* tags required where it is reached, exceeds max_len is the only source
\* token of its fragment.
C5_TokensWholeOversizeAlone ==
    \A c \in Calls :
        /\ IsPrefix(AllSourceParts(c), matches[c])
        /\ \A i \in 1..Len(yielded[c]) :
               \A j \in 1..Len(SourceParts(c, i)) :
                   Oversize(c, PartsBefore(c, i) + j) => Len(SourceParts(c, i)) = 1

\* an oversize token sits alone in a fragment longer than max_len, and the
\* token after it went to a later fragment
C5_Witness ==
    \E c \in Calls :
        /\ Done(c)
        /\ max_len[c] > 0
        /\ \E i \in 1..(Len(yielded[c]) - 1) :
               /\ Len(SourceParts(c, i)) = 1
               /\ Oversize(c, PartsBefore(c, i) + 1)
               /\ Len(yielded[c][i].fragment) > max_len[c]
               /\ Len(SourceParts(c, i + 1)) >= 1

\* C6: with max_len zero or negative the call fails before any processing
\* begins: no token is examined and no fragment is yielded.
C6_NonPositiveMaxLenRejected ==
    \A c \in Calls :
        max_len[c] <= 0 => (pos[c] = 0 /\ yielded[c] = <<>>)

\* the run of "A" in a scenario source "<p>" + "A" * n + "</p>"
RunOf(c) == (Len(source[c]) - Len(StartP)) - Len(EndP)

IsRunSource(c) == source[c] # HelloSource /\ source[c] # StraySource /\ source[c] # <<>>

C8_StrayEndTagSingleFragment ==
    \A c \in Calls :
        (source[c] = StraySource /\ max_len[c] >= Len(StraySource))
            => /\ (pc[c] = "loop" /\ pos[c] = 3) => Len(open_tags[TrackerOf(c)]) = 1
               /\ Done(c) => Fragments(c) = <<StraySource>>

\* C9: under any interleaving of the steps of two calls, each call yields
\* exactly the fragments it yields when run alone: at every moment what it
\* has yielded is the beginning of that sequence, and at its end all of it.
C9_CallsIndependent ==
    \A c \in Calls :
        LET alone == SplitMessage(source[c], max_len[c])
        IN  /\ IsPrefix(Fragments(c), alone)
            /\ Done(c) => Fragments(c) = alone

\* both calls are suspended at a split, each has yielded, and their
\* trackers hold different non-empty stacks
C9_Witness ==
    /\ Calls = {1, 2}
    /\ pc[1] = "split" /\ pc[2] = "split"
    /\ open_tags[TrackerOf(1)] # <<>>
    /\ open_tags[TrackerOf(2)] # <<>>
    /\ open_tags[TrackerOf(1)] # open_tags[TrackerOf(2)]
    /\ Len(yielded[1]) >= 2 /\ Len(yielded[2]) >= 2

\* C10: the empty source yields no fragment, whatever max_len is; and after
\* the last token the accumulator is empty only if the source gave no token.
C10_EmptySourceYieldsNothing ==
    \A c \in Calls :
        /\ source[c] = <<>> => yielded[c] = <<>>
        /\ (pc[c] \in {"loop", "final", "done"} /\ pos[c] = Len(matches[c])
                /\ current_fragment[c] = <<>>)
               => FindIter(source[c]) = <<>>

\* the call on the empty source has ended, and nothing was yielded
C10_Witness ==
    \E c \in Calls : Done(c) /\ source[c] = <<>> /\ yielded[c] = <<>>

-----------------------------------------------------------------------------
(* Properties of the steps *)

\* the stack a fresh tracker holds after the first k tokens of call c
StackAfter(c, k) == FeedAll(<<>>, SubSeq(matches[c], 1, k))

RECURSIVE CloseInnermostFirst(_)
\* "</name>" for every entry of the stack, from the top down
CloseInnermostFirst(stack) ==
    IF stack = <<>> THEN <<>>
    ELSE <<"<", "/">> \o stack[Len(stack)].tag \o <<">">>
             \o CloseInnermostFirst(SubSeq(stack, 1, Len(stack) - 1))

\* the i-th fragment of call c was emitted at a split, not after the loop
EmittedAtSplit(c, i) == i < Len(yielded[c]) \/ pc[c] \notin {"final", "done"}

\* C11: the closing suffix of the final fragment closes exactly the tags
\* still open at end of input, the stack after the last token was fed,
\* innermost first: nothing if the last token closed the last open tag, the
\* closing tag of a start tag that comes last.
C11_FinalSuffixClosesOpenTags ==
    \A c \in Calls :
        pc[c] \in {"final", "done"} /\ yielded[c] # <<>> =>
            LET last == yielded[c][Len(yielded[c])]
            IN  last.fragment
                    = Join(last.parts) \o CloseInnermostFirst(StackAfter(c, Len(matches[c])))

\* C12: after k tokens the tracker's stack is the stack a fresh tracker has
\* after those k tokens; a split (the yield and the reset) leaves it as it
\* is, and every token is fed once whichever branch is taken.
C12_StackFollowsTokens ==
    \A c \in Calls :
        pc[c] # "created" => open_tags[TrackerOf(c)] = StackAfter(c, pos[c])

\* a split has happened with two tags open and the stack still holds them
C12_Witness ==
    \E c \in Calls :
        /\ pc[c] = "loop"
        /\ yielded[c] # <<>>
        /\ Len(current_fragment[c]) = 2
        /\ Len(open_tags[TrackerOf(c)]) >= 2
        /\ Len(current_fragment[c][1]) > 0

\* C13: the step that starts a new fragment at a split makes it the
\* reopening prefix followed by the overflowing token; the prefix renders
\* the tags open at the cut, in open order, attributes in source order (fed
\* to a fresh tracker it gives that very stack); current_length is the
\* length of prefix plus token; the prefix is empty only if no tag was open.
C13_ReopeningPrefix ==
    [][\A c \in Calls :
          (pc[c] = "reset" /\ pc'[c] = "loop") =>
              LET cut    == StackAfter(c, pos[c])
                  token  == matches[c][pos[c] + 1]
                  prefix == current_fragment'[c][1]
              IN  /\ Len(current_fragment'[c]) = 2
                  /\ current_fragment'[c][2] = token
                  /\ prefix = RebuildOpenTags(cut)
                  /\ Len(FindIter(prefix)) = Len(cut)
                  /\ FeedAll(<<>>, FindIter(prefix)) = cut
                  /\ current_length'[c] = Len(prefix) + Len(token)
                  /\ (prefix = <<>> <=> cut = <<>>)]_vars

\* a fragment was restarted with two tags reopened, one with an attribute
C13_Witness ==
    \E c \in Calls :
        /\ pc[c] = "loop"
        /\ yielded[c] # <<>>
        /\ Len(current_fragment[c]) = 2
        /\ current_fragment[c][1]
               = <<"<", "a", ">", "<", "b", " ", "k", "=", "\"", "v", "\"", ">">>
        /\ current_fragment[c][2] = <<"x">>

\* C14 as stated: right after the reset of a split the tracker reports no
\* open tag.
C14_ResetClearsStack ==
    \A c \in Calls : pc[c] = "reset" => GetOpenTags(open_tags[TrackerOf(c)]) = <<>>

\* C14 amended: the reset of a split leaves the open-tag stack as it is: the
\* tracker reports the tags that were open before the reset.
C14_ResetKeepsStack ==
    [][\A c \in Calls :
          (pc[c] = "split" /\ pc'[c] = "reset") =>
              GetOpenTags(open_tags'[TrackerOf(c)]) = GetOpenTags(open_tags[TrackerOf(c)])]_vars

\* the reset has run and the tracker still reports an open tag
C14_Witness ==
    \E c \in Calls : pc[c] = "reset" /\ open_tags[TrackerOf(c)] # <<>>

\* what feeding `part` does to the stack `old`, giving `new`
FeedEffect(old, part, new) ==
    IF IsEndTag(part)
    THEN LET M == {i \in 1..Len(old) : old[i].tag = TagName(part)}
         IN  IF M = {} THEN new = old
             ELSE \E i \in M :
                      /\ \A j \in M : j <= i
                      /\ Len(new) = Len(old) - 1
                      /\ \A j \in 1..Len(new) : new[j] = IF j < i THEN old[j] ELSE old[j + 1]
    ELSE IF IsStartTag(part)
    THEN /\ Len(new) = Len(old) + 1
         /\ \A j \in 1..Len(old) : new[j] = old[j]
         /\ new[Len(new)].tag = TagName(part)
    ELSE new = old

\* C15: feeding an end tag removes exactly the entry nearest the top with
\* that name and leaves every other entry, those above it included, in
\* order; a start tag pushes exactly one entry; text changes nothing.
C15_FeedEffect ==
    [][\A c \in Calls :
          pos'[c] = pos[c] + 1 =>
              FeedEffect(open_tags[TrackerOf(c)], matches[c][pos[c] + 1],
                         open_tags'[TrackerOf(c)])]_vars

\* after <a><b k=v></a> the stack is [b]
C15_Witness ==
    \E c \in Calls :
        /\ pos[c] = 3
        /\ pc[c] = "loop"
        /\ SubSeq(matches[c], 1, 3)
               = << <<"<", "a", ">">>, <<"<", "b", " ", "k", "=", "v", ">">>,
                    <<"<", "/", "a", ">">> >>
        /\ open_tags[TrackerOf(c)] = <<[tag |-> <<"b">>, attrs |-> << <<<<"k">>, <<"v">>>> >>]>>

\* C16: a fragment emitted at a split is the accumulated text followed by
\* the closing tags of the tags open after the last token it contains was
\* fed, "</name>" each, innermost first.
C16_SplitFragmentClosed ==
    \A c \in Calls :
        \A i \in 1..Len(yielded[c]) :
            EmittedAtSplit(c, i) =>
                LET n == PartsBefore(c, i) + Len(SourceParts(c, i))
                IN  yielded[c][i].fragment
                        = Join(yielded[c][i].parts) \o CloseInnermostFirst(StackAfter(c, n))

\* a fragment emitted at a split ends with "</b></a>"
C16_Witness ==
    \E c \in Calls :
        \E i \in 1..Len(yielded[c]) :
            /\ EmittedAtSplit(c, i)
            /\ Len(SourceParts(c, i)) >= 1
            /\ LET f == yielded[c][i].fragment
               IN  /\ Len(f) >= 8
                   /\ SubSeq(f, Len(f) - 7, Len(f))
                          = <<"<", "/", "b", ">", "<", "/", "a", ">">>

\* C17: an iteration appends its token without a split if and only if
\* current_length + length(token) + added <= max_len, added being the length
\* of the closing tags of the tags open before the token is fed; it splits
\* only when the sum is strictly greater.
C17_AppendIffFits ==
    [][\A c \in Calls :
          (pc[c] = "loop" /\ pos[c] < Len(matches[c])
               /\ <<pc[c], pos[c]>> # <<pc'[c], pos'[c]>>) =>
              LET token == matches[c][pos[c] + 1]
                  sum   == current_length[c] + Len(token) + ClosingRequired(c, pos[c] + 1)
              IN  /\ sum <= max_len[c]
                        <=> /\ pc'[c] = "loop"
                            /\ pos'[c] = pos[c] + 1
                            /\ current_fragment'[c] = Append(current_fragment[c], token)
                            /\ yielded'[c] = yielded[c]
                  /\ sum > max_len[c]
                        <=> /\ pc'[c] = "split"
                            /\ Len(yielded'[c]) = Len(yielded[c]) + 1]_vars

\* a token was appended with tags open and the sum exactly max_len
C17_Witness ==
    \E c \in Calls :
        /\ pc[c] = "loop"
        /\ yielded[c] = <<>>
        /\ pos[c] >= 2
        /\ close_tags[c] # <<>>
        /\ close_tags[c] # Unbound
        /\ current_length[c] + Len(close_tags[c]) = max_len[c]

\* C18: current_length is the number of characters accumulated in
\* current_fragment (prefix and tokens, no closing suffix), and it is 0
\* exactly while nothing has been accumulated.
C18_LengthCountsAccumulated ==
    \A c \in Calls :
        /\ current_length[c] = Len(Join(current_fragment[c]))
        /\ current_length[c] = 0 <=> current_fragment[c] = <<>>

\* after a split the accumulator holds a prefix and two tokens
C18_Witness ==
    \E c \in Calls :
        /\ pc[c] = "loop"
        /\ yielded[c] # <<>>
        /\ Len(current_fragment[c]) >= 3
        /\ Len(current_fragment[c][1]) > 0
        /\ current_length[c] = Len(Join(current_fragment[c]))

\* C19: the tokens the loop iterates over, concatenated, are the source,
\* also when the source holds a "<" that begins no tag.
C19_TokensCoverSource ==
    \A c \in Calls :
        max_len[c] > 0 =>
            /\ pc[c] # "created" => Join(matches[c]) = source[c]
            /\ Done(c) => Join(AllSourceParts(c)) = source[c]

\* C20: only the first fragment can be the empty string, and it is empty
\* exactly when the first token alone is longer than max_len; every other
\* fragment holds at least one whole source token, so there are at most one
\* more fragments than tokens.
C20_OnlyFirstFragmentEmpty ==
    \A c \in Calls :
        /\ Len(yielded[c]) <= Len(matches[c]) + 1
        /\ \A i \in 1..Len(yielded[c]) :
               /\ yielded[c][i].fragment = <<>> => i = 1
               /\ i = 1 => (yielded[c][i].fragment = <<>>
                                <=> Len(matches[c][1]) > max_len[c])
               /\ i > 1 => /\ Len(SourceParts(c, i)) >= 1
                           /\ SourceParts(c, i)[1] = matches[c][PartsBefore(c, i) + 1]

\* the first fragment is empty and every token has a fragment of its own
C20_Witness ==
    \E c \in Calls :
        /\ Done(c)
        /\ max_len[c] > 0
        /\ Len(matches[c]) >= 2
        /\ yielded[c][1].fragment = <<>>
        /\ Len(yielded[c]) = Len(matches[c]) + 1

====
